---- MODULE Spec2Model ----
\* Hanak Search typeahead widget: debounced dispatcher, panel state machine,
\* keyboard navigation and lightbox carousel, modelled as one event-driven
\* state machine (single UI thread: every handler runs to completion).
\*
\* Two builds of the widget are kept in the repository and both are modelled:
\*   "deploy"   - the script embedded in src/deploy.sh (lines 57-481)
\*   "searchui" - the pill variant in src/search-ui/search.js (lines 245-614)
\* The state variable `variant` is fixed at Init and never changes.
\*
\* Strings are sequences of one-character strings, so that trim(),
\* startsWith() and the regular expressions of resolveImage() are computed.
\*
\* Presentation that is not in the sources (the style sheet) is assumed as the
\* spec describes it: the search surface takes pointer and keyboard input only
\* while it carries the class hs-active, and an open lightbox is a full-screen
\* overlay in front of the panel.
EXTENDS Integers, Sequences, FiniteSets, TLC

\* ------------------------------------------------------------------
\* Program constants
\* ------------------------------------------------------------------
MIN_CHARS == 2
DEBOUNCE_MS == 120
OPEN_PHASE2_MS == 420
COLLAPSE_MS == 80
CLEANUP_MS == 520
LB_REMOVE_MS == 250

\* ------------------------------------------------------------------
\* Bounds of the model
\* ------------------------------------------------------------------
MaxRequests == 2
MaxRows == 2
MaxLightboxes == 2
MaxLightboxRequests == 1

\* ------------------------------------------------------------------
\* Strings
\* ------------------------------------------------------------------
IsSpace(c) == c = " "

RECURSIVE TrimStart(_)
TrimStart(s) ==
  IF s # <<>> /\ IsSpace(Head(s)) THEN TrimStart(Tail(s)) ELSE s

RECURSIVE TrimEnd(_)
TrimEnd(s) ==
  IF s # <<>> /\ IsSpace(s[Len(s)]) THEN TrimEnd(SubSeq(s, 1, Len(s) - 1)) ELSE s

\* String.prototype.trim
Trim(s) == TrimEnd(TrimStart(s))

\* String.prototype.startsWith
StartsWith(s, p) == Len(s) >= Len(p) /\ SubSeq(s, 1, Len(p)) = p

\* The values an input edit can leave in the text field.
InputValues ==
  { <<>>, <<" ", "a", " ">>, <<" ", "a", "b", " ">>, <<"a", "b", "c">> }

\* ------------------------------------------------------------------
\* Filters
\* ------------------------------------------------------------------
FilterTypes == {"text", "image", "document"}
FilterOrder == <<"text", "image", "document">>

IsEnabled(f, k) == f[k]

\* a types parameter that names every filter tag, enabled or not
TypesParam_All(f) == FilterOrder

\* Object.entries(activeFilters).filter(([,v]) => v).map(([k]) => k)
TypesParam(f) == SelectSeq(FilterOrder, LAMBDA k : IsEnabled(f, k))

\* ------------------------------------------------------------------
\* Image URL resolution
\* ------------------------------------------------------------------
HANAK_ORIGIN == <<"h", "t", "t", "p", "s", ":", "/", "/", "o">>
Http == <<"h", "t", "t", "p">>
DotDotSlash == <<".", ".", "/">>

\* url.replace(/^(\.\.\/)+/, '/') : a leading run of ../ becomes one /
RECURSIVE StripDotDot(_)
StripDotDot(s) ==
  IF StartsWith(s, DotDotSlash) THEN StripDotDot(SubSeq(s, 4, Len(s))) ELSE s

ReplaceLeadingDotDot(s) ==
  IF StartsWith(s, DotDotSlash) THEN <<"/">> \o StripDotDot(s) ELSE s

\* .replace(/^\/+/, '/') : a leading run of / becomes one /
RECURSIVE StripSlashes(_)
StripSlashes(s) ==
  IF s # <<>> /\ Head(s) = "/" THEN StripSlashes(Tail(s)) ELSE s

CollapseLeadingSlashes(s) ==
  IF s # <<>> /\ Head(s) = "/" THEN <<"/">> \o StripSlashes(s) ELSE s

resolveImage(v, url) ==
  IF url = <<>> THEN <<>>
  ELSE IF StartsWith(url, Http) THEN url
  ELSE LET c1 == CollapseLeadingSlashes(ReplaceLeadingDotDot(url))
           clean == IF StartsWith(c1, <<"/">>) THEN c1 ELSE <<"/">> \o c1
       IN  IF v = "deploy" THEN clean ELSE HANAK_ORIGIN \o clean

\* resolveImage() of the bottom-bar build: the origin put before the url as
\* it came
resolveImageBar(url) ==
  IF StartsWith(url, Http) THEN url ELSE HANAK_ORIGIN \o url

\* the three builds that resolve image URLs
Builds == {"deploy", "searchui", "bar"}

resolveImageOf(build, url) ==
  IF build = "bar" THEN resolveImageBar(url) ELSE resolveImage(build, url)

\* ------------------------------------------------------------------
\* Backend payloads (the suggestion API is a black box)
\* ------------------------------------------------------------------
Variants == {"deploy", "searchui"}

\* category labels a suggestion can carry
Categories == {"Obrázek", "obrazek", "Stránka"}

\* String.prototype.toLowerCase on the category labels
ToLowerCase(c) ==
  CASE c = "Obrázek" -> "obrázek"
    [] c = "OBRÁZEK" -> "obrázek"
    [] c = "Obrazek" -> "obrazek"
    [] c = "Stránka" -> "stránka"
    [] OTHER -> c

PageUrl == <<"/", "p">>

\* a page result without a thumbnail
PageSuggestion == [url |-> PageUrl, image |-> <<>>, category |-> "Stránka"]

\* image results, one of them labelled without the accent, and a page that
\* carries a thumbnail
ImageA == [url |-> PageUrl, image |-> <<"/", "a">>, category |-> "Obrázek"]
ImageA2 == [url |-> PageUrl, image |-> <<".", ".", "/", "a">>, category |-> "Obrázek"]
ImageB == [url |-> PageUrl, image |-> <<"b">>, category |-> "Obrázek"]
ImagePlain == [url |-> PageUrl, image |-> <<"/", "a">>, category |-> "obrazek"]
PageThumb == [url |-> PageUrl, image |-> <<"/", "a">>, category |-> "Stránka"]

SeqsUpTo(S, n) == UNION { [1..k -> S] : k \in 0..n }

TimeMs == {5, 9}

HttpStatus == {200, 500}

\* s.score: absent (null or undefined), or a number, here a whole number of
\* thousandths
NoScore == [has |-> FALSE, permille |-> 0]
Score(k) == [has |-> TRUE, permille |-> k]

\* What can come back for a request: the fetch rejects, the body does not
\* parse, the body parses but has no time_ms (an error object), or a
\* SuggestionResponse arrives.
Failures == [kind : {"reject", "badjson", "notime"}]

Responses(statuses, times, lists) ==
  [kind : {"json"}, status : statuses, time_ms : times, suggestions : lists]

\* ------------------------------------------------------------------
\* State
\* ------------------------------------------------------------------
VARIABLES
  variant,          \* which build of the widget runs on the page
  trigger,          \* the trigger button has been injected
  triggerClasses,   \* class list of the trigger
  container,        \* the search container has been created
  containerActive,  \* the container carries hs-active
  inputValue,       \* input.value
  resultsScroll,    \* content of .hs-results-scroll
  hasResults,       \* .hs-results-panel carries has-results
  footerTime,       \* text of .hs-footer-time (-1: blank)
  activeIndex,
  debounceTimer,    \* id last returned by setTimeout for the debounce (0: null)
  pendingDebounce,  \* debounce timeouts scheduled and not yet fired or cleared
  isOpen,
  isAnimating,
  activeFilters,
  timers,           \* pending panel timeouts
  inflight,         \* suggestion requests awaiting their response
  lightboxes,       \* lightbox elements and their key handlers
  uncaught,         \* an exception has escaped into the host page
  unloaded,         \* the page has been navigated away in place
  nextSeq,          \* history: number of requests issued so far
  renderedFrom,     \* history: request whose response wrote resultsScroll (0: none)
  last,             \* history: the event that produced this state
  markup,           \* interpolations of the markup a template has produced
  scoreHtml,        \* the score badge a row template has produced
  resolved          \* the last image URL resolved: build, url, src

vars ==
  << variant, trigger, triggerClasses, container, containerActive, inputValue,
     resultsScroll, hasResults, footerTime, activeIndex, debounceTimer,
     pendingDebounce, isOpen, isAnimating, activeFilters, timers, inflight,
     lightboxes, uncaught, unloaded, nextSeq, renderedFrom, last, markup,
     scoreHtml, resolved >>

panelVars ==
  << container, containerActive, triggerClasses, isOpen, isAnimating, timers,
     hasResults, uncaught >>

listVars == << resultsScroll, footerTime, activeIndex, renderedFrom >>

dispatchVars == << debounceTimer, pendingDebounce, inflight, nextSeq >>

\* contents of the result list
Empty == [kind |-> "empty", rows |-> <<>>]
Loading == [kind |-> "loading", rows |-> <<>>]
SearchFailed == [kind |-> "error", rows |-> <<>>]
NothingFound == [kind |-> "nothing", rows |-> <<>>]
RowsOf(rows) == [kind |-> "rows", rows |-> rows]

\* resultsScroll.querySelectorAll('.hs-result')
Items == resultsScroll.rows

Init ==
  /\ variant \in Variants
  /\ trigger \in BOOLEAN
  /\ triggerClasses = {}
  /\ container = FALSE
  /\ containerActive = FALSE
  /\ inputValue = <<>>
  /\ resultsScroll = Empty
  /\ hasResults = FALSE
  /\ footerTime = -1
  /\ activeIndex = -1
  /\ debounceTimer = 0
  /\ pendingDebounce = {}
  /\ isOpen = FALSE
  /\ isAnimating = FALSE
  /\ activeFilters = [k \in FilterTypes |-> k # "document"]
  /\ timers = {}
  /\ inflight = {}
  /\ lightboxes = <<>>
  /\ uncaught = FALSE
  /\ unloaded = FALSE
  /\ nextSeq = 0
  /\ renderedFrom = 0
  /\ last = [op |-> "init"]
  /\ markup = <<>>
  /\ scoreHtml = [score |-> NoScore, shown |-> FALSE, pct |-> 0]
  /\ resolved = [build |-> "deploy", url |-> <<>>, src |-> <<>>, again |-> <<>>]

\* ------------------------------------------------------------------
\* Panel state machine
\* ------------------------------------------------------------------
\* open() with a guard that looks at isOpen only
openRejects_OpenOnly == isOpen

\* if (isAnimating || isOpen) return;
openRejects == isAnimating \/ isOpen

\* if (isAnimating || !isOpen) return;
closeRejects == isAnimating \/ ~isOpen

\* open(): the synchronous part. createContainer() runs on the first call.
\* With no trigger element yet, trigger.classList throws after isAnimating
\* has been set, and no timeout is scheduled.
open ==
  IF openRejects
  THEN UNCHANGED panelVars
  ELSE /\ container' = TRUE
       /\ isAnimating' = TRUE
       /\ IF trigger
          THEN /\ triggerClasses' = triggerClasses \cup {"hs-expanded"}
               /\ timers' = timers \cup {"openPhase2"}
               /\ UNCHANGED uncaught
          ELSE /\ uncaught' = TRUE
               /\ UNCHANGED << triggerClasses, timers >>
       /\ UNCHANGED << containerActive, isOpen, hasResults >>

\* close() that hides the panel at once: no guard taken, no timeout scheduled
close_Instant ==
  IF closeRejects
  THEN UNCHANGED panelVars
  ELSE /\ isOpen' = FALSE
       /\ hasResults' = FALSE
       /\ containerActive' = FALSE
       /\ triggerClasses' = triggerClasses \ {"hs-gone"}
       /\ UNCHANGED << isAnimating, timers, container, uncaught >>

\* close(): the synchronous part; two timeouts are scheduled.
close ==
  IF closeRejects
  THEN UNCHANGED panelVars
  ELSE /\ isAnimating' = TRUE
       /\ isOpen' = FALSE
       /\ hasResults' = FALSE
       /\ containerActive' = FALSE
       /\ triggerClasses' = (triggerClasses \ {"hs-gone"}) \cup {"hs-expanded"}
       /\ timers' = timers \cup {"collapse", "cleanup"}
       /\ UNCHANGED << container, uncaught >>

\* the panel state the flags and the pending timeouts stand for
PanelState ==
  IF isOpen THEN (IF isAnimating THEN "OpenAnimating" ELSE "Open")
  ELSE IF ~isAnimating THEN "Closed"
  ELSE IF "cleanup" \in timers THEN "Collapsing"
  ELSE "Expanding"

\* an open lightbox covers the page: pointer events reach the lightbox only
LightboxCovers ==
  \E i \in 1..Len(lightboxes) : lightboxes[i].inDom /\ ~lightboxes[i].closing

\* document.querySelector('.hs-lightbox')
LightboxPresent == \E i \in 1..Len(lightboxes) : lightboxes[i].inDom

\* DOMContentLoaded: injectTrigger() (it has already run in Init when the
\* script was loaded after the document)
InjectTrigger ==
  /\ ~unloaded
  /\ ~trigger
  /\ trigger' = TRUE
  /\ last' = [op |-> "injectTrigger"]
  /\ UNCHANGED << markup, scoreHtml, resolved, variant, triggerClasses, container, containerActive, inputValue,
                  resultsScroll, hasResults, footerTime, activeIndex, debounceTimer,
                  pendingDebounce, isOpen, isAnimating, activeFilters, timers,
                  inflight, lightboxes, uncaught, unloaded, nextSeq,
                  renderedFrom >>

\* click on the trigger button (visible unless hs-gone)
TriggerClick ==
  /\ ~unloaded
  /\ trigger
  /\ "hs-gone" \notin triggerClasses
  /\ ~LightboxCovers
  /\ open
  /\ last' = [op |-> "panelCall", call |-> "open"]
  /\ UNCHANGED << markup, scoreHtml, resolved, variant, trigger, inputValue, listVars, dispatchVars,
                  activeFilters, lightboxes, unloaded >>

\* click on a hijacked page element (stopPropagation, then open())
ExistingClick ==
  /\ ~unloaded
  /\ trigger
  /\ ~LightboxCovers
  /\ open
  /\ last' = [op |-> "panelCall", call |-> "open"]
  /\ UNCHANGED << markup, scoreHtml, resolved, variant, trigger, inputValue, listVars, dispatchVars,
                  activeFilters, lightboxes, unloaded >>

\* Ctrl/Meta+K anywhere on the page: isOpen ? close() : open()
Shortcut ==
  /\ ~unloaded
  /\ IF isOpen
     THEN /\ close
          /\ last' = [op |-> "panelCall", call |-> "close"]
     ELSE /\ open
          /\ last' = [op |-> "panelCall", call |-> "open"]
  /\ UNCHANGED << markup, scoreHtml, resolved, variant, trigger, inputValue, listVars, dispatchVars,
                  activeFilters, lightboxes, unloaded >>

\* click on the close button of the bar
CloseButtonClick ==
  /\ ~unloaded
  /\ containerActive
  /\ ~LightboxCovers
  /\ close
  /\ last' = [op |-> "panelCall", call |-> "close"]
  /\ UNCHANGED << markup, scoreHtml, resolved, variant, trigger, inputValue, listVars, dispatchVars,
                  activeFilters, lightboxes, unloaded >>

\* a second phase of open() that shows the container as the last session left it
OpenPhase2_KeepSession ==
  /\ ~unloaded
  /\ "openPhase2" \in timers
  /\ timers' = timers \ {"openPhase2"}
  /\ containerActive' = TRUE
  /\ triggerClasses' = triggerClasses \cup {"hs-gone"}
  /\ isOpen' = TRUE
  /\ isAnimating' = FALSE
  /\ last' = [op |-> "openPhase2"]
  /\ UNCHANGED << markup, scoreHtml, resolved, variant, trigger, container, listVars, inputValue,
                  hasResults, dispatchVars, activeFilters, lightboxes, uncaught,
                  unloaded >>

\* second phase of open(), OPEN_PHASE2_MS after it
OpenPhase2 ==
  /\ ~unloaded
  /\ "openPhase2" \in timers
  /\ timers' = timers \ {"openPhase2"}
  /\ containerActive' = TRUE
  /\ triggerClasses' = triggerClasses \cup {"hs-gone"}
  /\ inputValue' = <<>>
  /\ resultsScroll' = Empty
  /\ hasResults' = FALSE
  /\ activeIndex' = -1
  /\ isOpen' = TRUE
  /\ isAnimating' = FALSE
  /\ renderedFrom' = 0
  /\ last' = [op |-> "openPhase2"]
  /\ UNCHANGED << markup, scoreHtml, resolved, variant, trigger, container, footerTime, dispatchVars,
                  activeFilters, lightboxes, uncaught, unloaded >>

\* first timeout of close(), COLLAPSE_MS after it
CollapseTimer ==
  /\ ~unloaded
  /\ "collapse" \in timers
  /\ timers' = timers \ {"collapse"}
  /\ triggerClasses' = (triggerClasses \ {"hs-expanded"}) \cup {"hs-collapsing"}
  /\ last' = [op |-> "collapse"]
  /\ UNCHANGED << markup, scoreHtml, resolved, variant, trigger, container, containerActive, inputValue,
                  listVars, hasResults, dispatchVars, isOpen, isAnimating,
                  activeFilters, lightboxes, uncaught, unloaded >>

\* a cleanup timeout that forgets to release the transition guard
CleanupTimer_KeepGuard ==
  /\ ~unloaded
  /\ "cleanup" \in timers
  /\ "collapse" \in timers => COLLAPSE_MS > CLEANUP_MS
  /\ pendingDebounce # {} => DEBOUNCE_MS > CLEANUP_MS
  /\ timers' = timers \ {"cleanup"}
  /\ triggerClasses' = triggerClasses \ {"hs-collapsing"}
  /\ last' = [op |-> "cleanup"]
  /\ UNCHANGED << markup, scoreHtml, resolved, variant, trigger, container, containerActive, inputValue,
                  listVars, hasResults, dispatchVars, isOpen, isAnimating, activeFilters,
                  lightboxes, uncaught, unloaded >>

\* second timeout of close(), CLEANUP_MS after it. Timeouts fire in the order
\* of their deadlines: the collapse timeout of the same close() and a debounce
\* timeout scheduled before it (the input takes edits only while the panel is
\* active) are due earlier.
CleanupTimer ==
  /\ ~unloaded
  /\ "cleanup" \in timers
  /\ "collapse" \in timers => COLLAPSE_MS > CLEANUP_MS
  /\ pendingDebounce # {} => DEBOUNCE_MS > CLEANUP_MS
  /\ timers' = timers \ {"cleanup"}
  /\ triggerClasses' = triggerClasses \ {"hs-collapsing"}
  /\ isAnimating' = FALSE
  /\ last' = [op |-> "cleanup"]
  /\ UNCHANGED << markup, scoreHtml, resolved, variant, trigger, container, containerActive, inputValue,
                  listVars, hasResults, dispatchVars, isOpen, activeFilters,
                  lightboxes, uncaught, unloaded >>

\* ------------------------------------------------------------------
\* Debounced query dispatcher
\* ------------------------------------------------------------------
MAX_SUGGESTIONS(v) == IF v = "deploy" THEN 20 ELSE 8

\* a clearTimeout that cancels nothing
clearTimeout_Noop(pending, id) == pending

\* clearTimeout(debounceTimer): the timeout with that id no longer fires
clearTimeout(pending, id) == { t \in pending : t.id # id }

\* setTimeout returns an id no pending timeout carries
FreshTimerId(pending) ==
  CHOOSE i \in 1..(Cardinality(pending) + 1) :
    /\ \A t \in pending : t.id # i
    /\ \A j \in 1..(i - 1) : \E t \in pending : t.id = j

\* the GET fetchResults(query) sends: types is read from the filters at the
\* time of the call
SuggestUrl(query, filters) ==
  [ q |-> query,
    limit |-> MAX_SUGGESTIONS(variant),
    types |-> TypesParam(filters) ]

\* the request awaiting its response (the response echoes q)
FetchRequest(query) == [id |-> nextSeq + 1, q |-> query]

\* onInput() that measures the raw input value instead of the trimmed one
onInput_NoTrim(v) ==
  LET cleared == clearTimeout(pendingDebounce, debounceTimer)
      q == v
  IN  IF Len(q) < MIN_CHARS
      THEN /\ pendingDebounce' = cleared
           /\ resultsScroll' = Empty
           /\ hasResults' = FALSE
           /\ activeIndex' = -1
           /\ UNCHANGED debounceTimer
      ELSE /\ resultsScroll' = Loading
           /\ hasResults' = TRUE
           /\ debounceTimer' = FreshTimerId(cleared)
           /\ pendingDebounce' =
                cleared \cup {[id |-> FreshTimerId(cleared), q |-> q,
                               burst |-> pendingDebounce # {}]}
           /\ UNCHANGED activeIndex

\* onInput() that schedules a timeout without cancelling the previous one
onInput_KeepTimer(v) ==
  LET cleared == pendingDebounce
      q == Trim(v)
  IN  IF Len(q) < MIN_CHARS
      THEN /\ pendingDebounce' = cleared
           /\ resultsScroll' = Empty
           /\ hasResults' = FALSE
           /\ activeIndex' = -1
           /\ UNCHANGED debounceTimer
      ELSE /\ resultsScroll' = Loading
           /\ hasResults' = TRUE
           /\ debounceTimer' = FreshTimerId(cleared)
           /\ pendingDebounce' =
                cleared \cup {[id |-> FreshTimerId(cleared), q |-> q,
                               burst |-> pendingDebounce # {}]}
           /\ UNCHANGED activeIndex

\* onInput(), after the browser has put v into the input. A pending timeout
\* is [id, q, burst]: q is the query its closure captured; burst is history
\* (it replaced a timeout that had not fired).
onInput(v) ==
  LET cleared == clearTimeout(pendingDebounce, debounceTimer)
      q == Trim(v)
  IN  IF Len(q) < MIN_CHARS
      THEN /\ pendingDebounce' = cleared
           /\ resultsScroll' = Empty
           /\ hasResults' = FALSE
           /\ activeIndex' = -1
           /\ UNCHANGED debounceTimer
      ELSE /\ resultsScroll' = Loading
           /\ hasResults' = TRUE
           /\ debounceTimer' = FreshTimerId(cleared)
           /\ pendingDebounce' =
                cleared \cup {[id |-> FreshTimerId(cleared), q |-> q,
                               burst |-> pendingDebounce # {}]}
           /\ UNCHANGED activeIndex

\* an edit of the text field (typing, deleting, pasting)
InputEdit(v) ==
  /\ ~unloaded
  /\ containerActive
  /\ v # inputValue
  /\ Len(Trim(v)) >= MIN_CHARS =>
       nextSeq + Cardinality(clearTimeout(pendingDebounce, debounceTimer)) < MaxRequests
  /\ inputValue' = v
  /\ onInput(v)
  /\ renderedFrom' = 0
  /\ last' = [op |-> "onInput", hadTimer |-> pendingDebounce # {}]
  /\ UNCHANGED << markup, scoreHtml, resolved, variant, trigger, triggerClasses, container, containerActive,
                  footerTime, isOpen, isAnimating, activeFilters, timers, inflight,
                  lightboxes, uncaught, unloaded, nextSeq >>

\* the debounce timeout t fires: fetchResults(q) up to its first await
DebounceFire(t) ==
  /\ ~unloaded
  /\ t \in pendingDebounce
  /\ nextSeq < MaxRequests
  /\ pendingDebounce' = pendingDebounce \ {t}
  /\ inflight' = inflight \cup {FetchRequest(t.q)}
  /\ nextSeq' = nextSeq + 1
  /\ last' = [op |-> "timerFire", burst |-> t.burst,
              sent |-> SuggestUrl(t.q, activeFilters)]
  /\ UNCHANGED << markup, scoreHtml, resolved, variant, trigger, inputValue, listVars, panelVars, debounceTimer,
                  activeFilters, lightboxes, unloaded >>

\* a filter handler that refuses to switch the last enabled filter off
filterClick_KeepOne(type) ==
  LET q == Trim(inputValue)
      flipped == [activeFilters EXCEPT ![type] = ~activeFilters[type]]
      toggled == IF \A k \in FilterTypes : ~flipped[k] THEN activeFilters ELSE flipped
  IN  /\ activeFilters' = toggled
      /\ IF Len(q) >= MIN_CHARS
         THEN /\ pendingDebounce' = clearTimeout(pendingDebounce, debounceTimer)
              /\ inflight' = inflight \cup {FetchRequest(q)}
              /\ nextSeq' = nextSeq + 1
              /\ UNCHANGED debounceTimer
         ELSE UNCHANGED dispatchVars

\* the filter handler without its q.length >= MIN_CHARS test
filterClick_AnyLength(type) ==
  LET q == Trim(inputValue)
      toggled == [activeFilters EXCEPT ![type] = ~activeFilters[type]]
  IN  /\ activeFilters' = toggled
      /\ pendingDebounce' = clearTimeout(pendingDebounce, debounceTimer)
      /\ inflight' = inflight \cup {FetchRequest(q)}
      /\ nextSeq' = nextSeq + 1
      /\ UNCHANGED debounceTimer

\* the filter handler without its clearTimeout(debounceTimer)
filterClick_KeepTimer(type) ==
  LET q == Trim(inputValue)
      toggled == [activeFilters EXCEPT ![type] = ~activeFilters[type]]
  IN  /\ activeFilters' = toggled
      /\ IF Len(q) >= MIN_CHARS
         THEN /\ pendingDebounce' = pendingDebounce
              /\ inflight' = inflight \cup {FetchRequest(q)}
              /\ nextSeq' = nextSeq + 1
              /\ UNCHANGED debounceTimer
         ELSE UNCHANGED dispatchVars

\* the click handler of a filter button
filterClick(type) ==
  LET q == Trim(inputValue)
      toggled == [activeFilters EXCEPT ![type] = ~activeFilters[type]]
  IN  /\ activeFilters' = toggled
      /\ IF Len(q) >= MIN_CHARS
         THEN /\ pendingDebounce' = clearTimeout(pendingDebounce, debounceTimer)
              /\ inflight' = inflight \cup {FetchRequest(q)}
              /\ nextSeq' = nextSeq + 1
              /\ UNCHANGED debounceTimer
         ELSE UNCHANGED dispatchVars

FilterClick(type) ==
  /\ ~unloaded
  /\ containerActive
  /\ ~LightboxCovers
  /\ Len(Trim(inputValue)) >= MIN_CHARS => nextSeq < MaxRequests
  /\ filterClick(type)
  /\ last' = [op |-> "filter", type |-> type, hadTimer |-> pendingDebounce # {},
              sent |-> SuggestUrl(Trim(inputValue), activeFilters')]
  /\ UNCHANGED << markup, scoreHtml, resolved, variant, trigger, inputValue, listVars, panelVars, lightboxes,
                  unloaded >>

\* ------------------------------------------------------------------
\* Markup: escaping, attribute parsing and the templates
\* ------------------------------------------------------------------
Amp == <<"&", "a", "m", "p", ";">>
Lt == <<"&", "l", "t", ";">>
Gt == <<"&", "g", "t", ";">>

\* the serialisation of a text node: &, < and > become entities, quotes stay
EscapeChar(c) ==
  CASE c = "&" -> Amp
    [] c = "<" -> Lt
    [] c = ">" -> Gt
    [] OTHER -> <<c>>

\* escapeHtml(str): div.textContent = str || ''; return div.innerHTML
RECURSIVE escapeHtml(_)
escapeHtml(str) ==
  IF str = <<>> THEN <<>> ELSE EscapeChar(Head(str)) \o escapeHtml(Tail(str))

\* the HTML parser on the text of a double-quoted attribute: the value ends
\* at the first quote, and entities are decoded
RECURSIVE UpToQuote(_)
UpToQuote(s) ==
  IF s = <<>> \/ Head(s) = "\"" THEN <<>> ELSE <<Head(s)>> \o UpToQuote(Tail(s))

RECURSIVE DecodeEntities(_)
DecodeEntities(s) ==
  IF s = <<>> THEN <<>>
  ELSE IF StartsWith(s, Amp) THEN <<"&">> \o DecodeEntities(SubSeq(s, 6, Len(s)))
  ELSE IF StartsWith(s, Lt) THEN <<"<">> \o DecodeEntities(SubSeq(s, 5, Len(s)))
  ELSE IF StartsWith(s, Gt) THEN <<">">> \o DecodeEntities(SubSeq(s, 5, Len(s)))
  ELSE <<Head(s)>> \o DecodeEntities(Tail(s))

\* el.dataset.x for an attribute written as data-x="${text}"
AttributeValue(text) == DecodeEntities(UpToQuote(text))

\* the strings the payloads of the widget specifications put into data-*
\* attributes, and el.dataset.x for data-x="${escapeHtml(t)}" tabulated over them
DatasetTexts ==
  { s.url : s \in {PageSuggestion, ImageA, ImageA2, ImageB, ImagePlain, PageThumb} }
    \cup { resolveImage(v, s.image) :
             v \in Variants, s \in {ImageA, ImageA2, ImageB, ImagePlain, PageThumb} }

dataset == [t \in DatasetTexts |-> AttributeValue(escapeHtml(t))]

\* one interpolation ${...} of a template: where it stands (inside a
\* double-quoted attribute or in element content), whether the template
\* calls escapeHtml on it, and the text it inserts
Slot(point, ctx, escaped, text) ==
  [point |-> point, ctx |-> ctx, escaped |-> escaped, text |-> text]

\* the template of one result row (thumbHtml included)
rowMarkup(s) ==
  LET src == resolveImage(variant, s.image)
  IN  (IF s.image # <<>> THEN << Slot("img src", "attr", FALSE, src) >> ELSE <<>>)
      \o << Slot("data-url", "attr", TRUE, escapeHtml(s.url)),
            Slot("data-title", "attr", TRUE, escapeHtml(s.title)),
            Slot("data-image", "attr", TRUE,
                 IF s.image # <<>> THEN escapeHtml(src) ELSE <<>>),
            Slot("data-category", "attr", TRUE, escapeHtml(s.category)),
            Slot("hs-result-title", "text", TRUE, escapeHtml(s.title)) >>
      \o (IF s.category # <<>>
          THEN << Slot("hs-result-cat", "text", TRUE, escapeHtml(s.category)) >>
          ELSE <<>>)

\* the template of the nothing-found placeholder
emptyMarkup(query) == << Slot("hs-empty", "text", TRUE, escapeHtml(query)) >>

\* getImageResults(): the item read back from the data-* attributes of a row
datasetItem(s) ==
  [ image |-> IF s.image # <<>>
              THEN AttributeValue(escapeHtml(resolveImage(variant, s.image)))
              ELSE <<>>,
    title |-> AttributeValue(escapeHtml(s.title)),
    url |-> AttributeValue(escapeHtml(s.url)) ]

\* the template of renderCurrent() for item
lightboxMarkup(item) ==
  << Slot("hs-lightbox-img src", "attr", FALSE, item.image),
     Slot("hs-lightbox-img alt", "attr", TRUE, escapeHtml(item.title)),
     Slot("hs-lightbox-title", "text", TRUE, escapeHtml(item.title)),
     Slot("hs-lightbox-link href", "attr", TRUE, escapeHtml(item.url)) >>

widgetVars ==
  << variant, trigger, triggerClasses, container, containerActive, inputValue,
     resultsScroll, hasResults, footerTime, activeIndex, debounceTimer,
     pendingDebounce, isOpen, isAnimating, activeFilters, timers, inflight,
     lightboxes, uncaught, unloaded, nextSeq, renderedFrom, last >>

\* renderSuggestions() fills the row template with suggestion s
RowTemplate(s) ==
  /\ markup' = rowMarkup(s)
  /\ UNCHANGED << widgetVars, scoreHtml, resolved >>

\* renderSuggestions() fills the placeholder with the echoed query
EmptyTemplate(query) ==
  /\ markup' = emptyMarkup(query)
  /\ UNCHANGED << widgetVars, scoreHtml, resolved >>

\* renderCurrent() fills the lightbox template with the item of a row
LightboxTemplate(s) ==
  /\ s.image # <<>>
  /\ markup' = lightboxMarkup(datasetItem(s))
  /\ UNCHANGED << widgetVars, scoreHtml, resolved >>

\* Math.round(x) for x = n / 10: the integer nearest to x, halves going up
RoundTenths(n) == (n + 5) \div 10

\* pct = Math.min(100, Math.round(s.score * 100))
pct(score) ==
  IF RoundTenths(score.permille) < 100 THEN RoundTenths(score.permille) ELSE 100

\* scoreHtml: the hs-result-score span, rendered when s.score != null
scoreMarkup(score) ==
  [ score |-> score,
    shown |-> score.has,
    pct |-> IF score.has THEN pct(score) ELSE 0 ]

\* renderSuggestions() computes the score badge of a suggestion
ScoreTemplate(score) ==
  /\ scoreHtml' = scoreMarkup(score)
  /\ UNCHANGED << widgetVars, markup, resolved >>

\* the src attribute of a thumbnail: resolveImage(s.image), and the same
\* function applied to its own result
ResolveImage(build, url) ==
  /\ resolved' = [ build |-> build,
                   url |-> url,
                   src |-> resolveImageOf(build, url),
                   again |-> resolveImageOf(build, resolveImageOf(build, url)) ]
  /\ UNCHANGED << widgetVars, markup, scoreHtml >>

\* ------------------------------------------------------------------
\* Suggestion renderer
\* ------------------------------------------------------------------
\* one .hs-result row: its data-url, data-image and data-category
\* (the searchui build writes no data-category)
Row(s) ==
  [ url |-> dataset[s.url],
    image |-> IF s.image # <<>> THEN dataset[resolveImage(variant, s.image)] ELSE <<>>,
    category |-> IF variant = "deploy" THEN s.category ELSE "",
    \* history: the category the backend gave the suggestion
    label |-> s.category ]

\* renderSuggestions(data)
renderSuggestions(data, id) ==
  /\ footerTime' = data.time_ms
  /\ hasResults' = TRUE
  /\ activeIndex' = -1
  /\ renderedFrom' = id
  /\ resultsScroll' =
       IF Len(data.suggestions) = 0
       THEN NothingFound
       ELSE RowsOf([i \in 1..Len(data.suggestions) |-> Row(data.suggestions[i])])

\* the catch branch of fetchResults
renderFailure(id) ==
  /\ resultsScroll' = SearchFailed
  /\ hasResults' = TRUE
  /\ renderedFrom' = id
  /\ UNCHANGED << footerTime, activeIndex >>

\* fetchResults without its try/catch: a failure leaves the list as it was
fetchResultsResume_NoCatch(r, o) ==
  IF o.kind = "json"
  THEN renderSuggestions(o, r.id)
  ELSE UNCHANGED << resultsScroll, hasResults, renderedFrom, footerTime, activeIndex >>

\* the continuation of fetchResults once the response (or failure) is there
fetchResultsResume(r, o) ==
  IF o.kind = "json" THEN renderSuggestions(o, r.id) ELSE renderFailure(r.id)

\* the response to request r arrives with outcome o
Respond(r, o) ==
  /\ ~unloaded
  /\ r \in inflight
  /\ inflight' = inflight \ {r}
  /\ fetchResultsResume(r, o)
  /\ last' = [op |-> "response", id |-> r.id, failed |-> o.kind # "json",
              status |-> IF o.kind = "json" THEN o.status ELSE 0]
  /\ UNCHANGED << markup, scoreHtml, resolved, variant, trigger, triggerClasses, container, containerActive,
                  inputValue, debounceTimer, pendingDebounce, isOpen, isAnimating,
                  activeFilters, timers, lightboxes, uncaught, unloaded,
                  nextSeq >>

\* ------------------------------------------------------------------
\* Lightbox carousel
\* ------------------------------------------------------------------
ImageLabel == "Obrázek"

\* category.toLowerCase() === 'obrázek' || category.toLowerCase() === 'obrazek'
isImage(el) ==
  IF variant = "deploy"
  THEN ToLowerCase(el.category) = "obrázek" \/ ToLowerCase(el.category) = "obrazek"
  ELSE TRUE

\* getImageResults(): the rows matching .hs-result[data-category="Obrázek"]
\* (an exact, case-sensitive attribute match) that carry an image
getImageResults ==
  LET matching == SelectSeq(Items, LAMBDA el : el.category = ImageLabel)
      mapped == [i \in 1..Len(matching) |->
                   [image |-> matching[i].image, url |-> matching[i].url]]
  IN  SelectSeq(mapped, LAMBDA r : r.image # <<>>)

\* images.findIndex(r => r.image === imageSrc), 0-based, -1 when absent
findIndex(images, imageSrc) ==
  IF \E i \in 1..Len(images) : images[i].image = imageSrc
  THEN (CHOOSE i \in 1..Len(images) :
          /\ images[i].image = imageSrc
          /\ \A j \in 1..(i - 1) : images[j].image # imageSrc) - 1
  ELSE -1

\* the lightbox openLightbox(imageSrc, title, pageUrl) creates; the searchui
\* build shows the one image and keeps no item list
newLightbox(imageSrc, pageUrl) ==
  LET images == IF variant = "deploy" THEN getImageResults ELSE <<>>
      found == findIndex(images, imageSrc)
  IN  [ inDom |-> TRUE,
        closing |-> FALSE,
        handler |-> TRUE,
        images |-> images,
        currentIdx |-> IF variant = "deploy" /\ found # -1 THEN found ELSE 0,
        \* { image: imageSrc, title, url: pageUrl } is what renderCurrent()
        \* shows when images[currentIdx] is undefined, and is read only then
        source |-> IF images = <<>>
                   THEN [image |-> imageSrc, url |-> pageUrl]
                   ELSE [image |-> <<>>, url |-> <<>>] ]

\* navigate(delta) of lightbox lb
navigate(lb, delta) ==
  LET newIdx == lb.currentIdx + delta
  IN  IF newIdx >= 0 /\ newIdx < Len(lb.images)
      THEN [lb EXCEPT !.currentIdx = newIdx]
      ELSE lb

\* renderCurrent(): which boundary controls exist
hasPrev(lb) == lb.currentIdx > 0

\* a next control that is still rendered on the last item
hasNext_OffByOne(lb) == lb.currentIdx < Len(lb.images)

hasNext(lb) == lb.currentIdx < Len(lb.images) - 1

\* renderCurrent(): the counter, ${currentIdx + 1} / ${images.length}
counter(lb) == << lb.currentIdx + 1, Len(lb.images) >>

\* closeLb(): fade out, schedule lb.remove(), detach the key handler
closeLb(lb) == [lb EXCEPT !.closing = TRUE, !.handler = FALSE]

\* the backdrop click listener: closeLb() in the deploy build; the searchui
\* build fades and removes the element and leaves its key handler attached
backdropClose(lb) ==
  IF variant = "deploy" THEN closeLb(lb) ELSE [lb EXCEPT !.closing = TRUE]

\* a lightbox is forgotten once its element is gone and no handler is left
Prune(lbs) == SelectSeq(lbs, LAMBDA l : l.inDom \/ l.handler)

HandlerRegistered == \E i \in 1..Len(lightboxes) : lightboxes[i].handler

\* handleResultClick(el): what activating row el does
\*   "lightbox"  openLightbox(image, title, url)
\*   "window"    window.open(url, '_blank')
\*   "location"  window.location.href = url
\*   "none"      nothing
activation(el) ==
  IF isImage(el) /\ el.image # <<>> THEN "lightbox"
  ELSE IF el.url # <<>> THEN (IF variant = "deploy" THEN "window" ELSE "location")
  ELSE "none"

\* the url handed to window.open / window.location.href (<<>>: none)
navigationTarget(el) ==
  IF activation(el) \in {"window", "location"} THEN el.url ELSE <<>>

handleResultClick(el) ==
  /\ lightboxes' = IF activation(el) = "lightbox"
                   THEN Append(lightboxes, newLightbox(el.image, el.url))
                   ELSE lightboxes
  /\ unloaded' = (activation(el) = "location")

\* the activation would exceed the number of lightboxes the model keeps
OverLightboxBound(el) ==
  activation(el) = "lightbox" /\ Len(lightboxes) >= MaxLightboxes

\* pointer click on result row i
RowClick(i) ==
  /\ ~unloaded
  /\ containerActive
  /\ ~LightboxCovers
  /\ i \in 1..Len(Items)
  /\ ~OverLightboxBound(Items[i])
  /\ handleResultClick(Items[i])
  /\ last' = [op |-> "rowClick", did |-> activation(Items[i]), row |-> i,
              target |-> navigationTarget(Items[i])]
  /\ UNCHANGED << markup, scoreHtml, resolved, variant, trigger, inputValue, listVars, panelVars, dispatchVars,
                  activeFilters >>

\* the document click listener of createContainer(), for a click whose target
\* is neither inside the container nor the trigger
documentClick ==
  IF isOpen
  THEN IF variant = "deploy" /\ LightboxPresent
       THEN UNCHANGED panelVars
       ELSE close
  ELSE UNCHANGED panelVars

\* history: whether that listener calls close()
documentCall ==
  IF isOpen /\ ~(variant = "deploy" /\ LightboxPresent) THEN "close" ELSE "none"

\* document.addEventListener('click', ...) runs in createContainer(); nothing
\* ever calls removeEventListener for it
outsideClickListener == container

\* click somewhere on the page outside the container (lightbox content included)
OutsideClick ==
  /\ ~unloaded
  /\ container
  /\ documentClick
  /\ last' = [op |-> "outsideClick", call |-> documentCall]
  /\ UNCHANGED << markup, scoreHtml, resolved, variant, trigger, inputValue, listVars, dispatchVars,
                  activeFilters, lightboxes, unloaded >>

\* click on the backdrop of lightbox i; the click then bubbles to the document
BackdropClick(i) ==
  /\ ~unloaded
  /\ i \in 1..Len(lightboxes)
  /\ lightboxes[i].inDom
  /\ lightboxes' = [lightboxes EXCEPT ![i] = backdropClose(lightboxes[i])]
  /\ documentClick
  /\ last' = [op |-> "backdropClick", call |-> documentCall]
  /\ UNCHANGED << markup, scoreHtml, resolved, variant, trigger, inputValue, listVars, dispatchVars,
                  activeFilters, unloaded >>

\* click on the prev (-1) or next (+1) control of lightbox i (stopPropagation)
NavClick(i, delta) ==
  /\ ~unloaded
  /\ variant = "deploy"
  /\ i \in 1..Len(lightboxes)
  /\ lightboxes[i].inDom /\ ~lightboxes[i].closing
  /\ IF delta = -1 THEN hasPrev(lightboxes[i]) ELSE hasNext(lightboxes[i])
  /\ lightboxes' = [lightboxes EXCEPT ![i] = navigate(lightboxes[i], delta)]
  /\ last' = [op |-> "navClick"]
  /\ UNCHANGED << markup, scoreHtml, resolved, variant, trigger, inputValue, listVars, panelVars, dispatchVars,
                  activeFilters, unloaded >>

\* setTimeout(() => lb.remove(), 250) of a closed lightbox fires
LbRemoveTimer(i) ==
  /\ ~unloaded
  /\ i \in 1..Len(lightboxes)
  /\ lightboxes[i].inDom /\ lightboxes[i].closing
  /\ lightboxes' = Prune([lightboxes EXCEPT ![i].inDom = FALSE])
  /\ last' = [op |-> "lbRemove"]
  /\ UNCHANGED << markup, scoreHtml, resolved, variant, trigger, inputValue, listVars, panelVars, dispatchVars,
                  activeFilters, unloaded >>

\* ------------------------------------------------------------------
\* Keyboard
\* ------------------------------------------------------------------
Min(a, b) == IF a < b THEN a ELSE b
Max(a, b) == IF a > b THEN a ELSE b

\* an ArrowDown that wraps from the last row back to the input
arrowDown_Wrap(index, n) == IF index + 1 > n - 1 THEN -1 ELSE index + 1

\* onKeydown, ArrowDown branch
arrowDown(index, n) == Min(index + 1, n - 1)

\* onKeydown, ArrowUp branch
arrowUp(index) == Max(index - 1, -1)

\* updateActive(items): the rows (1-based) left carrying hs-active
updateActive(items, index) == { i \in 1..Len(items) : i - 1 = index }

\* onKeydown, Enter branch: items[activeIndex] exists
enterTarget == activeIndex >= 0 /\ activeIndex + 1 <= Len(Items)

\* the lightbox key handlers on Escape: every registered handler closes its
\* own lightbox and detaches itself
handlersEscape(lbs) ==
  Prune([i \in 1..Len(lbs) |-> IF lbs[i].handler THEN closeLb(lbs[i]) ELSE lbs[i]])

\* the lightbox key handlers on ArrowLeft (-1) / ArrowRight (+1)
handlersArrow(lbs, delta) ==
  [i \in 1..Len(lbs) |-> IF lbs[i].handler THEN navigate(lbs[i], delta) ELSE lbs[i]]

\* ArrowDown / ArrowUp typed into the input
KeyArrow(key) ==
  /\ ~unloaded
  /\ containerActive
  /\ activeIndex' = IF key = "ArrowDown"
                    THEN arrowDown(activeIndex, Len(Items))
                    ELSE arrowUp(activeIndex)
  /\ last' = [op |-> "keydown", key |-> key,
              marked |-> updateActive(Items, activeIndex'),
              focus |-> (key = "ArrowUp" /\ activeIndex' = -1)]
  /\ UNCHANGED << markup, scoreHtml, resolved, variant, trigger, inputValue, resultsScroll, footerTime,
                  renderedFrom, panelVars, dispatchVars, activeFilters, lightboxes,
                  unloaded >>

\* an Enter branch that always navigates to the url of the selected row
KeyEnter_Navigate ==
  /\ ~unloaded
  /\ containerActive
  /\ UNCHANGED << lightboxes, unloaded >>
  /\ last' = [op |-> "keydown", key |-> "Enter",
              did |-> IF enterTarget THEN "window" ELSE "none",
              row |-> activeIndex + 1,
              target |-> IF enterTarget THEN Items[activeIndex + 1].url ELSE <<>>]
  /\ UNCHANGED << markup, scoreHtml, resolved, variant, trigger, inputValue, listVars, panelVars,
                  dispatchVars, activeFilters >>

\* Enter typed into the input
KeyEnter ==
  /\ ~unloaded
  /\ containerActive
  /\ enterTarget => ~OverLightboxBound(Items[activeIndex + 1])
  /\ IF enterTarget
     THEN handleResultClick(Items[activeIndex + 1])
     ELSE UNCHANGED << lightboxes, unloaded >>
  /\ last' = [op |-> "keydown", key |-> "Enter",
              did |-> IF enterTarget THEN activation(Items[activeIndex + 1]) ELSE "none",
              row |-> activeIndex + 1,
              target |-> IF enterTarget
                         THEN navigationTarget(Items[activeIndex + 1]) ELSE <<>>]
  /\ UNCHANGED << markup, scoreHtml, resolved, variant, trigger, inputValue, listVars, panelVars, dispatchVars,
                  activeFilters >>

\* Escape pressed, with the focus in the input (toInput) or elsewhere.
\* deploy: the lightbox handlers listen in the capture phase and stop the
\* propagation, so onKeydown does not run when one is registered.
\* searchui: onKeydown runs first, then the event bubbles to the handlers.
KeyEscape(toInput) ==
  /\ ~unloaded
  /\ toInput => containerActive
  /\ toInput \/ HandlerRegistered
  /\ lightboxes' = handlersEscape(lightboxes)
  /\ IF toInput /\ ~(variant = "deploy" /\ HandlerRegistered)
     THEN close
     ELSE UNCHANGED panelVars
  /\ last' = [op |-> "keydown", key |-> "Escape",
              call |-> IF toInput /\ ~(variant = "deploy" /\ HandlerRegistered)
                       THEN "close" ELSE "none"]
  /\ UNCHANGED << markup, scoreHtml, resolved, variant, trigger, inputValue, listVars, dispatchVars,
                  activeFilters, unloaded >>

\* ArrowLeft (-1) / ArrowRight (+1) while a lightbox key handler is registered
KeyArrowLR(delta) ==
  /\ ~unloaded
  /\ variant = "deploy"
  /\ HandlerRegistered
  /\ lightboxes' = handlersArrow(lightboxes, delta)
  /\ last' = [op |-> "keydown", key |-> IF delta = -1 THEN "ArrowLeft" ELSE "ArrowRight"]
  /\ UNCHANGED << markup, scoreHtml, resolved, variant, trigger, inputValue, listVars, panelVars, dispatchVars,
                  activeFilters, unloaded >>

\* ------------------------------------------------------------------
\* Specification
\* ------------------------------------------------------------------
\* The dispatcher, the renderer, the panel and the selection keys of the deploy
\* build, with page results only: no activation, hence no lightbox.
PageLists == SeqsUpTo({PageSuggestion}, MaxRows)

SearchOutcomes == Failures \cup Responses({200}, TimeMs, PageLists)

InitDeploy == Init /\ variant = "deploy"

Next ==
  \/ InjectTrigger
  \/ TriggerClick
  \/ ExistingClick
  \/ Shortcut
  \/ CloseButtonClick
  \/ OpenPhase2
  \/ CollapseTimer
  \/ CleanupTimer
  \/ \E v \in InputValues : InputEdit(v)
  \/ \E t \in pendingDebounce : DebounceFire(t)
  \/ \E type \in FilterTypes : FilterClick(type)
  \/ \E r \in inflight, o \in SearchOutcomes : Respond(r, o)
  \/ OutsideClick
  \/ \E key \in {"ArrowDown", "ArrowUp"} : KeyArrow(key)
  \/ KeyEscape(TRUE)

Spec == InitDeploy /\ [][Next]_vars

\* Both builds, one query and image results: activation, the lightbox, the
\* panel underneath it.
ImageLists ==
  { <<ImageA, ImageB>>,
    <<ImagePlain>>,
    <<PageThumb, ImageB>>,
    <<ImageA, ImageA2>>,
    <<PageSuggestion>> }

ImageOutcomes == Responses(HttpStatus, {5}, ImageLists)

\* the script ran after the document was loaded: the trigger is injected at once
InitReady == Init /\ trigger = TRUE

\* the user of this specification waits for the results of a search
Settled == inflight = {} /\ pendingDebounce = {}

NextLightbox ==
  \/ Settled /\ TriggerClick
  \/ Settled /\ Shortcut
  \/ Settled /\ nextSeq < MaxLightboxRequests /\ InputEdit(<<"a", "b", "c">>)
  \/ Settled /\ \E i \in DOMAIN Items : RowClick(i)
  \/ Settled /\ OutsideClick
  \/ Settled /\ \E i \in 1..MaxLightboxes : BackdropClick(i)
  \/ Settled /\ \E i \in 1..MaxLightboxes, delta \in {-1, 1} : NavClick(i, delta)
  \/ Settled /\ \E key \in {"ArrowDown", "ArrowUp"} : KeyArrow(key)
  \/ Settled /\ KeyEnter
  \/ Settled /\ \E toInput \in BOOLEAN : KeyEscape(toInput)
  \/ Settled /\ \E delta \in {-1, 1} : KeyArrowLR(delta)
  \/ OpenPhase2
  \/ CollapseTimer
  \/ CleanupTimer
  \/ \E t \in pendingDebounce : DebounceFire(t)
  \/ \E r \in inflight, o \in ImageOutcomes : Respond(r, o)
  \/ \E i \in 1..MaxLightboxes : LbRemoveTimer(i)

SpecLightbox == InitReady /\ [][NextLightbox]_vars

\* The browser's timer queue: a timeout that has been scheduled fires.
TimersFire ==
  /\ WF_vars(OpenPhase2)
  /\ WF_vars(CollapseTimer)
  /\ WF_vars(CleanupTimer)
  /\ WF_vars(\E t \in pendingDebounce : DebounceFire(t))

\* the panel of both builds: the events that call open() and close(), the
\* edits and their requests (which fail), and the timeouts
NextPanel ==
  \/ TriggerClick
  \/ ExistingClick
  \/ Shortcut
  \/ CloseButtonClick
  \/ OutsideClick
  \/ KeyEscape(TRUE)
  \/ \E v \in InputValues : InputEdit(v)
  \/ OpenPhase2
  \/ CollapseTimer
  \/ CleanupTimer
  \/ \E t \in pendingDebounce : DebounceFire(t)
  \/ \E r \in inflight, o \in Failures : Respond(r, o)

SpecLive == InitReady /\ [][NextPanel]_vars /\ TimersFire

\* The templates alone, filled with backend fields that carry markup characters.
MarkupTexts == { <<>>, <<"a">>, <<"\"">>, <<"<">>, <<"&">> }

MarkupSuggestions ==
  [url : MarkupTexts, title : MarkupTexts, image : MarkupTexts, category : MarkupTexts]

InitMarkup == Init /\ variant = "deploy" /\ trigger = TRUE

NextMarkup ==
  \/ \E s \in MarkupSuggestions : RowTemplate(s)
  \/ \E query \in MarkupTexts : EmptyTemplate(query)
  \/ \E s \in MarkupSuggestions : LightboxTemplate(s)

SpecMarkup == InitMarkup /\ [][NextMarkup]_vars

\* The score badge alone, for scores from -MaxPermille to MaxPermille
\* thousandths and for a suggestion without a score.
MaxPermille == 1100

Scores == {NoScore} \cup { Score(k) : k \in (0 - MaxPermille)..MaxPermille }

NextScore == \E score \in Scores : ScoreTemplate(score)

SpecScore == InitMarkup /\ [][NextScore]_vars

\* Image URL resolution alone: paths of up to MaxSegments pieces, and the
\* same paths behind the origin.
MaxSegments == 4

PathPieces == { DotDotSlash, <<"/">>, <<"a">>, <<".">> }

RECURSIVE Flatten(_)
Flatten(ps) == IF ps = <<>> THEN <<>> ELSE Head(ps) \o Flatten(Tail(ps))

RelativePaths == { Flatten(ps) : ps \in SeqsUpTo(PathPieces, MaxSegments) } \ { <<>> }

AbsoluteUrls == { HANAK_ORIGIN \o p : p \in { q \in RelativePaths : Len(q) <= 2 } }

ImageUrls == RelativePaths \cup AbsoluteUrls

NextResolve == \E build \in Builds, url \in ImageUrls : ResolveImage(build, url)

SpecResolve == InitMarkup /\ [][NextResolve]_vars

\* ------------------------------------------------------------------
\* Claims
\* ------------------------------------------------------------------
\* the response to request r arrives in this step
Arrives(r) == r \in inflight /\ r \notin inflight'

\* the request issued last is no longer awaited
LatestArrived == \A b \in inflight : b.id # nextSeq

\* C1: the arrival of a response to a request that is not the most recently
\* issued one leaves the result list, the SelectionIndex and the latency
\* footer unchanged.
C1_StaleResponseIgnored ==
  [][ \A r \in inflight :
        (Arrives(r) /\ r.id < nextSeq)
          => UNCHANGED << resultsScroll, activeIndex, footerTime >> ]_vars

\* C2: when the response to the latest request B has arrived before the
\* response to an earlier request A, then once A's response has arrived too
\* the rendered list is not the one produced from A's response.
C2_LaterResponseWins ==
  [][ \A a \in inflight :
        (Arrives(a) /\ a.id < nextSeq /\ LatestArrived)
          => renderedFrom' # a.id ]_vars

\* C3: an input edit whose trimmed query is shorter than MIN_CHARS leaves no
\* debounce timeout pending, issues no request, empties the result list and
\* sets the SelectionIndex to -1.
C3_ShortQueryClears ==
  [][ (last'.op = "onInput" /\ Len(Trim(inputValue')) < MIN_CHARS)
        => /\ pendingDebounce' = {}
           /\ nextSeq' = nextSeq
           /\ inflight' = inflight
           /\ resultsScroll' = Empty
           /\ hasResults' = FALSE
           /\ activeIndex' = -1 ]_vars

\* a short query typed with spaces around it, while a timeout was pending
C3_Witness ==
  /\ last.op = "onInput"
  /\ last.hadTimer
  /\ inputValue = <<" ", "a", " ">>
  /\ resultsScroll = Empty

\* C4: an input edit issues no request and leaves at most one debounce
\* timeout pending, whose query is the trimmed input; the timeout that fires
\* issues exactly one request, with the trimmed query of the last edit and
\* the filter set of the moment it fires, and leaves no timeout behind.
C4_DebounceOneRequest ==
  [][ /\ last'.op = "onInput"
        => /\ nextSeq' = nextSeq
           /\ inflight' = inflight
           /\ Cardinality(pendingDebounce') <= 1
           /\ \A t \in pendingDebounce' : t.q = Trim(inputValue')
      /\ last'.op = "timerFire"
        => /\ nextSeq' = nextSeq + 1
           /\ inflight' = inflight \cup {[id |-> nextSeq + 1, q |-> Trim(inputValue)]}
           /\ Cardinality(inflight') = Cardinality(inflight) + 1
           /\ last'.sent.q = Trim(inputValue)
           /\ last'.sent.types = TypesParam(activeFilters)
           /\ pendingDebounce' = {} ]_vars

\* the timeout of the last edit of a burst has fired, with a filter set that
\* is not the initial one
C4_Witness ==
  /\ last.op = "timerFire"
  /\ last.burst
  /\ last.sent.q = <<"a", "b", "c">>
  /\ last.sent.types = <<"text", "document">>

\* C5: a filter toggle made while the trimmed query has at least MIN_CHARS
\* characters flips that filter, issues exactly one request at once, with the
\* filter set as it is after the toggle, and leaves no debounce timeout pending.
C5_FilterToggleDispatches ==
  [][ (last'.op = "filter" /\ Len(Trim(inputValue)) >= MIN_CHARS)
        => /\ activeFilters' =
                [activeFilters EXCEPT ![last'.type] = ~activeFilters[last'.type]]
           /\ nextSeq' = nextSeq + 1
           /\ inflight' = inflight \cup {[id |-> nextSeq + 1, q |-> Trim(inputValue)]}
           /\ Cardinality(inflight') = Cardinality(inflight) + 1
           /\ last'.sent.q = Trim(inputValue)
           /\ last'.sent.types = TypesParam(activeFilters')
           /\ pendingDebounce' = {} ]_vars

\* a toggle that cancelled a pending timeout and sent the new filter set
C5_Witness ==
  /\ last.op = "filter"
  /\ last.hadTimer
  /\ last.sent.types = <<"text", "image", "document">>
  /\ pendingDebounce = {}
  /\ \E r \in inflight : r.id = nextSeq

\* C6: after an ArrowUp or ArrowDown key has been processed the SelectionIndex
\* lies in [-1, n-1], n being the number of rows rendered.
C6_SelectionInRange ==
  (last.op = "keydown" /\ last.key \in {"ArrowUp", "ArrowDown"})
    => (activeIndex >= -1 /\ activeIndex <= Len(Items) - 1)

\* a lightbox that is displayed
IsOpenLightbox(lb) == lb.inDom /\ ~lb.closing

\* C7: the currentIndex of every open lightbox lies in [0, total-1].
C7_LightboxIndexInRange ==
  variant = "deploy"
    => \A i \in 1..Len(lightboxes) :
         IsOpenLightbox(lightboxes[i])
           => /\ lightboxes[i].currentIdx >= 0
              /\ lightboxes[i].currentIdx <= Len(lightboxes[i].images) - 1

\* the event of this step calls open() / close()
Calls(f) == "call" \in DOMAIN last' /\ last'.call = f

panelState == << isOpen, isAnimating, container, containerActive, triggerClasses,
                 timers, hasResults >>

PanelEdges ==
  { <<"Closed", "Expanding">>, <<"Expanding", "Open">>,
    <<"Open", "Collapsing">>, <<"Collapsing", "Closed">> }

\* C9: the panel state changes only along Closed -> Expanding -> Open ->
\* Collapsing -> Closed; it becomes Open only by the second phase of open()
\* and Closed only by the cleanup timeout of close().
C9_PanelCycle ==
  [][ PanelState' # PanelState
        => /\ << PanelState, PanelState' >> \in PanelEdges
           /\ PanelState' = "Open" => last'.op = "openPhase2"
           /\ PanelState' = "Closed" => last'.op = "cleanup" ]_vars

\* the panel has been opened, closed, and the cleanup has released the guard
C9_Witness ==
  /\ last.op = "cleanup"
  /\ PanelState = "Closed"
  /\ container
  /\ ~isAnimating

\* C10: a click outside the container while the panel is Open makes the panel
\* collapse, except that it leaves the panel Open while a lightbox element is
\* in the document.
C10_OutsideClick ==
  [][ (last'.op = "outsideClick" /\ PanelState = "Open")
        => IF LightboxPresent
           THEN PanelState' = "Open"
           ELSE PanelState' = "Collapsing" ]_vars

\* C11: while a lightbox is open, an Escape, ArrowLeft or ArrowRight keystroke
\* is handled by the lightbox only: the panel stays Open, the SelectionIndex
\* does not change, and Escape closes the lightbox.
C11_LightboxKeysOnly ==
  [][ ( /\ last'.op = "keydown"
        /\ last'.key \in {"Escape", "ArrowLeft", "ArrowRight"}
        /\ LightboxCovers
        /\ PanelState = "Open" )
        => /\ PanelState' = "Open"
           /\ activeIndex' = activeIndex
           /\ last'.key = "Escape" => ~LightboxCovers' ]_vars

\* C12: a failed suggestion request (rejected fetch, unparsable body) leaves
\* the single search-failed placeholder in the result list, raises no
\* exception and does not touch the dispatcher; with the placeholder shown, a
\* qualifying edit schedules a timeout, a qualifying filter toggle issues a new
\* request, and a successful response replaces the placeholder.
C12_FailureIsLocal ==
  [][ /\ (last'.op = "response" /\ last'.failed)
        => /\ resultsScroll' = SearchFailed
           /\ hasResults'
           /\ uncaught' = uncaught
           /\ UNCHANGED << debounceTimer, pendingDebounce, nextSeq, activeFilters,
                           inputValue, containerActive, isOpen, isAnimating >>
      /\ ( /\ resultsScroll = SearchFailed
           /\ last'.op = "onInput"
           /\ Len(Trim(inputValue')) >= MIN_CHARS )
        => /\ Cardinality(pendingDebounce') = 1
           /\ \A t \in pendingDebounce' : t.q = Trim(inputValue')
      /\ ( /\ resultsScroll = SearchFailed
           /\ last'.op = "filter"
           /\ Len(Trim(inputValue)) >= MIN_CHARS )
        => [id |-> nextSeq + 1, q |-> Trim(inputValue)] \in inflight' \ inflight
      /\ ( /\ resultsScroll = SearchFailed
           /\ last'.op = "response"
           /\ ~last'.failed )
        => /\ resultsScroll' # SearchFailed
           /\ resultsScroll'.kind \in {"rows", "nothing"}
           /\ renderedFrom' = last'.id ]_vars

\* the retry after a failure: the placeholder of the failed request 1 is
\* shown and a filter toggle has just issued request 2
C12_Witness ==
  /\ last.op = "filter"
  /\ resultsScroll = SearchFailed
  /\ renderedFrom = 1
  /\ inflight = {[id |-> 2, q |-> Trim(inputValue)]}

\* C13: a response whose HTTP status is not 2xx yields the search-failed
\* placeholder and renders no suggestion row, whatever its body contains.
C13_Non2xxIsFailure ==
  [][ (last'.op = "response" /\ last'.status \notin 200..299)
        => /\ resultsScroll' = SearchFailed
           /\ Len(Items') = 0 ]_vars

\* this step activates a row (by click or Enter) and routes it to the lightbox
RoutedToLightbox == "did" \in DOMAIN last' /\ last'.did = "lightbox"

\* the lightbox this step has opened
Opened == lightboxes'[Len(lightboxes')]

\* the rendered rows the routing rule treats as image results, in render order
RoutedImages ==
  LET routed == SelectSeq(Items, LAMBDA el : isImage(el) /\ el.image # <<>>)
  IN  [i \in 1..Len(routed) |-> [image |-> routed[i].image, url |-> routed[i].url]]

\* C14: when an activated row is routed to the lightbox, the item list of the
\* lightbox is the sequence of rendered rows the routing rule treats as image
\* results, in render order, and the activated row is one of its items.
C14_ItemListIsRoutedRows ==
  [][ (variant = "deploy" /\ RoutedToLightbox)
        => /\ Opened.images = RoutedImages
           /\ \E k \in 1..Len(Opened.images) :
                Opened.images[k] = [image |-> Items[last'.row].image,
                                    url |-> Items[last'.row].url] ]_vars

\* the 0-based position of row i among the rendered image rows
ImagePosition(i) ==
  Cardinality({ j \in 1..(i - 1) : isImage(Items[j]) /\ Items[j].image # <<>> })

\* C15: when an image row is activated the lightbox opens with currentIndex
\* equal to the position of that row within the image rows of the render.
C15_OpensAtActivatedRow ==
  [][ (variant = "deploy" /\ RoutedToLightbox)
        => Opened.currentIdx = ImagePosition(last'.row) ]_vars

\* the enabled filter tags in the order text, image, document
EnabledTags(f) ==
  (IF f["text"] THEN <<"text">> ELSE <<>>)
    \o (IF f["image"] THEN <<"image">> ELSE <<>>)
    \o (IF f["document"] THEN <<"document">> ELSE <<>>)

\* C16: every step that issues a suggestion request issues exactly one, with
\* q = the trimmed input, limit = the configured cap and types = the tags of
\* the filters enabled at that moment, in the order text, image, document;
\* every debounce timeout that fires issues such a request.
C16_RequestParameters ==
  [][ /\ nextSeq' # nextSeq
        => /\ nextSeq' = nextSeq + 1
           /\ inflight' = inflight \cup {[id |-> nextSeq', q |-> Trim(inputValue)]}
           /\ [id |-> nextSeq', q |-> Trim(inputValue)] \notin inflight
           /\ "sent" \in DOMAIN last'
           /\ last'.sent.q = Trim(inputValue)
           /\ Len(last'.sent.q) >= MIN_CHARS
           /\ last'.sent.limit = MAX_SUGGESTIONS(variant)
           /\ last'.sent.types = EnabledTags(activeFilters')
           /\ (activeFilters'["text"] /\ activeFilters'["image"]
                 /\ ~activeFilters'["document"])
                => last'.sent.types = <<"text", "image">>
      /\ last'.op = "timerFire" => nextSeq' = nextSeq + 1 ]_vars

\* the request of the example: the default filters, a query typed with spaces
C16_Witness ==
  /\ last.op = "timerFire"
  /\ inputValue = <<" ", "a", "b", " ">>
  /\ last.sent = [q |-> <<"a", "b">>, limit |-> 20, types |-> <<"text", "image">>]
  /\ inflight = {[id |-> nextSeq, q |-> <<"a", "b">>]}

\* what the HTML parser makes of an interpolation: inside a double-quoted
\* attribute a quote ends the value and what follows is read as attributes;
\* in element content a < opens a tag
Injects(slot) ==
  \E i \in 1..Len(slot.text) :
    slot.text[i] = (IF slot.ctx = "attr" THEN "\"" ELSE "<")

\* C17: every backend string interpolated into the markup of the rows and of
\* the lightbox goes through escapeHtml at its interpolation point, and none
\* introduces an attribute or an element.
C17_InterpolationsEscaped ==
  \A i \in 1..Len(markup) : markup[i].escaped /\ ~Injects(markup[i])

\* the lightbox key handlers registered on the document
KeyHandlers == { i \in 1..Len(lightboxes) : lightboxes[i].handler }

\* the lightboxes still open
OpenLightboxes == { i \in 1..Len(lightboxes) : IsOpenLightbox(lightboxes[i]) }

\* C18: the document-level listeners are removed when their owner leaves
\* scope: there are as many lightbox key handlers registered as there are
\* lightboxes open, and no outside-click listener is registered while the
\* panel is Closed.
C18_ListenersRemoved ==
  variant = "deploy"
    => /\ Cardinality(KeyHandlers) = Cardinality(OpenLightboxes)
       /\ PanelState = "Closed" => ~outsideClickListener

\* C19: at most one debounce timeout is pending at any time, and it is the
\* one of the last edit: an edit or a qualifying filter toggle has cancelled
\* every earlier one, so the timeout that fires is never a superseded one.
C19_SingleDebounceTimer ==
  /\ Cardinality(pendingDebounce) <= 1
  /\ \A t \in pendingDebounce : t.id = debounceTimer /\ t.q = Trim(inputValue)
  /\ (last.op = "onInput" /\ Len(Trim(inputValue)) < MIN_CHARS)
       => pendingDebounce = {}
  /\ (last.op = "filter" /\ Len(Trim(inputValue)) >= MIN_CHARS)
       => pendingDebounce = {}
  /\ last.op = "timerFire"
       => (last.sent.q = Trim(inputValue) /\ pendingDebounce = {})

\* an edit has replaced the timeout of the edit before it
C19_Witness ==
  /\ last.op = "onInput"
  /\ last.hadTimer
  /\ Cardinality(pendingDebounce) = 1
  /\ \A t \in pendingDebounce : t.burst /\ t.q = <<"a", "b", "c">>

\* C20: when the second phase of open() completes and the panel becomes Open,
\* the input is empty, the result list is empty and the SelectionIndex is -1.
C20_OpenStartsClean ==
  [][ (last'.op = "openPhase2" \/ (PanelState # "Open" /\ PanelState' = "Open"))
        => /\ PanelState' = "Open"
           /\ inputValue' = <<>>
           /\ resultsScroll' = Empty
           /\ Len(Items') = 0
           /\ hasResults' = FALSE
           /\ activeIndex' = -1 ]_vars

\* the panel reopens after a session that left a query, rows and a selection
C20_Witness ==
  /\ last.op = "openPhase2"
  /\ PanelState = "Open"
  /\ nextSeq > 0
  /\ footerTime # -1
  /\ inputValue = <<>>

\* C21: the SelectionIndex is -1 right after every render of the result list
\* by a response: suggestion rows, the nothing-found placeholder and the
\* search-failed placeholder.
C21_RenderResetsSelection ==
  [][ last'.op = "response"
        => /\ resultsScroll'.kind \in {"rows", "nothing", "error"}
           /\ activeIndex' = -1 ]_vars

\* C22: a filter toggle made while the trimmed query is shorter than
\* MIN_CHARS issues no request and leaves the result list, the SelectionIndex
\* and the debounce state unchanged; only the flag of the toggled filter flips.
C22_ShortQueryToggle ==
  [][ (last'.op = "filter" /\ Len(Trim(inputValue)) < MIN_CHARS)
        => /\ UNCHANGED << resultsScroll, hasResults, footerTime, activeIndex,
                           inputValue, debounceTimer, pendingDebounce, inflight,
                           nextSeq >>
           /\ activeFilters' =
                [activeFilters EXCEPT ![last'.type] = ~activeFilters[last'.type]] ]_vars

\* the document filter has been switched on under a one-letter query
C22_Witness ==
  /\ last.op = "filter"
  /\ last.type = "document"
  /\ inputValue = <<" ", "a", " ">>
  /\ activeFilters["document"]
  /\ nextSeq = 0

AllDisabled(f) == \A k \in FilterTypes : ~f[k]

\* C23: a filter toggle flips the flag of the toggled type and no other, also
\* when that disables the last enabled filter; with every filter disabled a
\* qualifying query is dispatched as one request with an empty types list,
\* without an exception, and its well-formed response is rendered as rows or
\* as the nothing-found placeholder, not as the error state.
C23_IndependentToggles ==
  [][ /\ last'.op = "filter"
        => /\ activeFilters'[last'.type] = ~activeFilters[last'.type]
           /\ \A k \in FilterTypes \ {last'.type} :
                activeFilters'[k] = activeFilters[k]
      /\ ( /\ AllDisabled(activeFilters')
           /\ \/ last'.op = "timerFire"
              \/ (last'.op = "filter" /\ Len(Trim(inputValue)) >= MIN_CHARS) )
        => /\ nextSeq' = nextSeq + 1
           /\ [id |-> nextSeq', q |-> Trim(inputValue)] \in inflight'
           /\ last'.sent.types = <<>>
           /\ uncaught' = uncaught
           /\ resultsScroll' = resultsScroll
      /\ ( /\ AllDisabled(activeFilters)
           /\ last'.op = "response"
           /\ ~last'.failed )
        => /\ resultsScroll'.kind \in {"rows", "nothing"}
           /\ uncaught' = uncaught ]_vars

\* every filter is off and the query typed has been dispatched
C23_Witness ==
  /\ AllDisabled(activeFilters)
  /\ last.op = "timerFire"
  /\ last.sent.types = <<>>
  /\ \E r \in inflight : r.id = nextSeq /\ r.q = Trim(inputValue)

\* C24: with n rows rendered and the SelectionIndex i in [-1, n-1], ArrowDown
\* sets it to min(i+1, n-1) and ArrowUp to max(i-1, -1), without wrapping;
\* an ArrowUp that leaves it at -1 focuses the input; the row at the
\* SelectionIndex, and no other, is marked active.
C24_ArrowsClamp ==
  [][ ( /\ last'.op = "keydown"
        /\ last'.key \in {"ArrowDown", "ArrowUp"}
        /\ activeIndex >= -1
        /\ activeIndex <= Len(Items) - 1 )
        => /\ last'.key = "ArrowDown"
             => activeIndex' = (IF activeIndex + 1 <= Len(Items) - 1
                                THEN activeIndex + 1 ELSE Len(Items) - 1)
           /\ last'.key = "ArrowUp"
             => activeIndex' = (IF activeIndex - 1 >= -1 THEN activeIndex - 1 ELSE -1)
           /\ (last'.key = "ArrowUp" /\ activeIndex' = -1) => last'.focus
           /\ last'.marked = (IF activeIndex' >= 0 THEN {activeIndex' + 1} ELSE {})
           /\ Items' = Items ]_vars

\* ArrowDown has put the selection on the last of two rows
C24_Witness ==
  /\ last.op = "keydown"
  /\ last.key = "ArrowDown"
  /\ Len(Items) = 2
  /\ activeIndex = 1
  /\ last.marked = {2}

\* what activating row el does, by click or by key
Activates(el) ==
  /\ handleResultClick(el)
  /\ last'.did = activation(el)
  /\ last'.target = navigationTarget(el)

\* C25: Enter with SelectionIndex >= 0 and a row rendered at that index does
\* what a pointer click on that row does (same lightbox-or-navigation
\* decision, same target url, same browsing context); Enter with
\* SelectionIndex = -1, or with no row at the index, activates nothing.
C25_EnterIsClick ==
  [][ /\ last'.op = "rowClick" => Activates(Items[last'.row])
      /\ (last'.op = "keydown" /\ last'.key = "Enter")
           => /\ IF activeIndex >= 0 /\ activeIndex + 1 \in DOMAIN Items
                 THEN Activates(Items[activeIndex + 1])
                 ELSE /\ UNCHANGED << lightboxes, unloaded >>
                      /\ last'.did = "none"
                      /\ last'.target = <<>>
              /\ UNCHANGED << resultsScroll, activeIndex, inputValue, panelVars,
                              dispatchVars >> ]_vars

\* Enter on a selected image row has opened the lightbox
C25_Witness ==
  /\ last.op = "keydown"
  /\ last.key = "Enter"
  /\ last.did = "lightbox"
  /\ activeIndex >= 0
  /\ LightboxCovers

\* the spellings of the image label, whatever the case and the accent
ImageLabels ==
  {"Obrázek", "obrázek", "OBRÁZEK", "Obrazek", "obrazek", "OBRAZEK"}

\* C26: an activation opens the lightbox if and only if the category of the
\* result is the image label (in any case, with or without the accent) and
\* its image is non-empty; any other result with a non-empty url navigates to
\* that url; no activation does both.
C26_RoutingRule ==
  [][ ("row" \in DOMAIN last' /\ last'.row \in DOMAIN Items)
        => LET el == Items[last'.row]
           IN  /\ last'.did = "lightbox"
                    <=> (el.label \in ImageLabels /\ el.image # <<>>)
               /\ (last'.did # "lightbox" /\ el.url # <<>>)
                    => (last'.did \in {"window", "location"} /\ last'.target = el.url)
               /\ last'.did = "lightbox"
                    => (Len(lightboxes') = Len(lightboxes) + 1 /\ ~unloaded')
               /\ last'.did # "lightbox" => lightboxes' = lightboxes ]_vars

\* currentIndex moved by delta when that stays inside the item list, else kept
Stepped(lb, delta) ==
  IF lb.currentIdx + delta >= 0 /\ lb.currentIdx + delta <= Len(lb.images) - 1
  THEN lb.currentIdx + delta
  ELSE lb.currentIdx

\* C27: in the lightbox ArrowLeft / ArrowRight move currentIndex by exactly
\* one inside the item list and do nothing at its ends; a click on the prev
\* or next control moves it by exactly one; the prev control is rendered iff
\* currentIndex > 0, the next control iff currentIndex < total-1, and the
\* counter shows currentIndex+1 / total.
C27_LightboxNavigation ==
  [][ /\ (last'.op = "keydown" /\ last'.key \in {"ArrowLeft", "ArrowRight"})
        => /\ Len(lightboxes') = Len(lightboxes)
           /\ \A i \in 1..Len(lightboxes) :
                /\ lightboxes'[i].images = lightboxes[i].images
                /\ lightboxes'[i].currentIdx =
                     IF lightboxes[i].handler
                     THEN Stepped(lightboxes[i],
                                  IF last'.key = "ArrowLeft" THEN -1 ELSE 1)
                     ELSE lightboxes[i].currentIdx
      /\ last'.op = "navClick"
        => \E i \in 1..Len(lightboxes), delta \in {-1, 1} :
             /\ lightboxes[i].currentIdx + delta \in 0..(Len(lightboxes[i].images) - 1)
             /\ lightboxes' =
                  [lightboxes EXCEPT ![i].currentIdx = lightboxes[i].currentIdx + delta]
      /\ \A i \in 1..Len(lightboxes') :
           LET lb == lightboxes'[i]
           IN  (variant = "deploy" /\ IsOpenLightbox(lb))
                 => /\ hasPrev(lb) <=> lb.currentIdx > 0
                    /\ hasNext(lb) <=> lb.currentIdx + 1 < Len(lb.images)
                    /\ counter(lb) = << lb.currentIdx + 1, Len(lb.images) >> ]_vars

\* ArrowRight has moved an open lightbox to the second of its two items
C27_Witness ==
  /\ last.op = "keydown"
  /\ last.key = "ArrowRight"
  /\ \E i \in 1..Len(lightboxes) :
       /\ IsOpenLightbox(lightboxes[i])
       /\ Len(lightboxes[i].images) = 2
       /\ lightboxes[i].currentIdx = 1
       /\ hasPrev(lightboxes[i]) /\ ~hasNext(lightboxes[i])

\* score * 100 rounded to the nearest integer and clamped into [0, 100]
ClampedPercent(k) ==
  LET nearest == CHOOSE n \in -200..200 : 10 * n - 5 <= k /\ k < 10 * n + 5
  IN  IF nearest < 0 THEN 0 ELSE IF nearest > 100 THEN 100 ELSE nearest

\* C28: the percentage displayed for a suggestion with a score is score*100
\* rounded to the nearest integer and clamped into [0, 100]; a suggestion
\* without a score gets no percentage.
C28_ScorePercent ==
  /\ scoreHtml.shown <=> scoreHtml.score.has
  /\ scoreHtml.shown
       => /\ scoreHtml.pct = ClampedPercent(scoreHtml.score.permille)
          /\ scoreHtml.pct >= 0
          /\ scoreHtml.pct <= 100

\* the path an origin-relative url stands for: its leading ../ segments
\* removed, then exactly one leading /
CleanPath(url) == <<"/">> \o StripSlashes(StripDotDot(url))

\* C29: an absolute URL is returned unchanged; an origin-relative path loses
\* all its leading ../ segments and begins with exactly one /, and is returned
\* as it is (same-origin build) or behind the origin (absolute-origin builds);
\* resolving a resolved same-origin path returns it unchanged.
C29_ImageResolution ==
  resolved.url # <<>>
    => IF StartsWith(resolved.url, Http)
       THEN resolved.src = resolved.url
       ELSE /\ ~StartsWith(CleanPath(resolved.url), <<"/", "/">>)
            /\ ~StartsWith(CleanPath(resolved.url), <<"/">> \o DotDotSlash)
                 \/ StartsWith(StripDotDot(resolved.url), <<"/">>)
            /\ resolved.src = IF resolved.build = "deploy"
                              THEN CleanPath(resolved.url)
                              ELSE HANAK_ORIGIN \o CleanPath(resolved.url)
            /\ resolved.build = "deploy" => resolved.again = resolved.src

\* C30: open() called while the trigger element is missing throws nothing
\* into the page, leaves the panel Closed and the transition guard released;
\* an open() called with the trigger in place, the panel not open and no
\* transition timeout pending starts the opening transition.
C30_OpenWithoutTrigger ==
  [][ /\ (Calls("open") /\ ~trigger)
         => /\ uncaught' = uncaught
            /\ PanelState' = "Closed"
            /\ ~isAnimating'
      /\ (Calls("open") /\ trigger /\ ~isOpen /\ timers = {})
         => "openPhase2" \in timers' ]_vars

\* C31: once close() has been accepted no suggestion request is issued until
\* the panel has been opened again; a debounce timeout pending at the close
\* sends nothing into the closed panel.
C31_NoRequestWhileClosed ==
  [][ (PanelState \in {"Collapsing", "Closed"}) => (nextSeq' = nextSeq) ]_vars

\* C32: from the completion of open() until the next input edit or filter
\* toggle the result list stays empty and SelectionIndex stays -1; here for
\* the step that follows the completion: whatever it is, short of an edit or
\* a toggle, it leaves the list empty, and so does the response to a request
\* of an earlier open session.
C32_FreshPanelStaysEmpty ==
  [][ (last.op = "openPhase2" /\ last'.op \notin {"onInput", "filter"})
        => (resultsScroll' = Empty /\ activeIndex' = -1) ]_vars

\* C33: after an input edit has brought the trimmed query below MIN_CHARS
\* the result list stays empty until a later edit; here for the step that
\* follows the edit: whatever it is, short of another edit, it leaves the
\* list empty, and so does the response to a request that was in flight.
C33_ShortQueryStaysEmpty ==
  [][ ( /\ last.op = "onInput"
        /\ Len(Trim(inputValue)) < MIN_CHARS
        /\ last'.op # "onInput" )
        => resultsScroll' = Empty ]_vars

\* C34: at most one lightbox is open at any time, and at most one lightbox
\* key handler is registered: no user action while a lightbox is open
\* creates a second one.
C34_SingleLightbox ==
  variant = "deploy"
    => /\ Cardinality(OpenLightboxes) <= 1
       /\ Cardinality(KeyHandlers) <= 1

\* C35: whenever a lightbox is open the search panel is Open: no outside
\* click, Escape or Ctrl/Meta+K collapses the panel under an open lightbox.
C35_PanelOpenUnderLightbox ==
  (variant = "deploy" /\ OpenLightboxes # {}) => PanelState = "Open"

\* C36: with the trigger injected and timeouts firing, every accepted open()
\* ends with the guard released and the panel Open, every accepted close()
\* ends with the guard released and the panel Closed (unless the page is
\* left first), isOpen and isAnimating are never both true, and the guard is
\* never held forever.
C36_TransitionsComplete ==
  /\ [](~(isOpen /\ isAnimating))
  /\ ("openPhase2" \in timers) ~> (PanelState = "Open" \/ unloaded)
  /\ ("cleanup" \in timers) ~> (PanelState = "Closed" \/ unloaded)
  /\ isAnimating ~> (~isAnimating \/ unloaded)

C36_Witness ==
  /\ last.op = "cleanup"
  /\ trigger
  /\ timers = {}
  /\ ~isOpen
  /\ ~isAnimating

====
